---- MODULE Spec2Model ----
(***************************************************************************)
(* Model of streamlit_app.py: one "Fetch option prices" action of the      *)
(* options price panel.  The script resolves the API key, lists the        *)
(* contracts of an underlying, enriches every contract with two            *)
(* sequential lookups (previous-session aggregate, last trade), builds the *)
(* table and renders it through the type and premium filters.              *)
(*                                                                         *)
(* Python values:                                                          *)
(*   - an Optional is a sequence of length <= 1: None is << >> and a value *)
(*     v is <<v>> (so that 0, "" and None stay distinct);                  *)
(*   - a dict is a function from the keys it holds to their values; a key  *)
(*     a JSON object lacks is outside its DOMAIN, a JSON null is None;     *)
(*   - an f-string is the sequence of its parts (literal text and          *)
(*     formatted values), in order of appearance.                          *)
(* HTTP 200 bodies are JSON objects of the upstream schema; every other    *)
(* response may carry any body.                                            *)
(***************************************************************************)
EXTENDS FiniteSets, Integers, Sequences, TLC

VARIABLES
    env,            \* os.environ: POLYGON_API_KEY, None when unset
    secrets,        \* st.secrets, a mapping
    api_key,        \* main: api_key
    pc,             \* position of the script inside main
    contracts,      \* main: contracts, as returned by fetch_contracts
    error,          \* main: error, as returned by fetch_contracts
    i,              \* build_dataframe: index of the contract of the loop
    resp,           \* the HTTP response most recently received
    prev,           \* build_dataframe: prev
    last_price,     \* build_dataframe: last_price
    rows,           \* build_dataframe: rows
    calls,          \* the requests.get calls issued so far, in order
    messages,       \* st.error / st.warning outputs, in order
    option_types,   \* main: option_types (multiselect)
    price_range,    \* main: (price_min, price_max) (slider)
    table           \* st.dataframe output: None until a table is rendered

vars == <<env, secrets, api_key, pc, contracts, error, i, resp, prev,
          last_price, rows, calls, messages, option_types, price_range, table>>

(***************************************************************************)
(* Bounds                                                                  *)
(***************************************************************************)
MaxContracts == 2       \* contracts in one listing
MaxPrice == 1           \* prices are 0 .. MaxPrice

Prices == 0 .. MaxPrice

(***************************************************************************)
(* Python values                                                           *)
(***************************************************************************)
None == << >>
Some(v) == <<v>>
EmptyDict == [k \in {} |-> None]

\* dict.get(key): the value, None when the key is missing
Get(d, k) == IF k \in DOMAIN d THEN d[k] ELSE None

\* dict.get(key, default): the default only when the key is missing
GetDefault(d, k, default) == IF k \in DOMAIN d THEN d[k] ELSE default

\* truth value of an Optional number: None and 0 are falsy
TruthyNum(o) == o # None /\ o[1] # 0

\* truth value of an Optional string: None and "" are falsy
TruthyStr(o) == o # None /\ o[1] # ""

\* a or b, on Optional numbers
Or(a, b) == IF TruthyNum(a) THEN a ELSE b

\* f"{x}" of an Optional string
FormatStr(o) == IF o = None THEN "None" ELSE o[1]

\* the text of an f-string given as its parts
RECURSIVE Text(_)
Text(parts) == IF parts = << >> THEN "" ELSE Head(parts) \o Text(Tail(parts))

\* str.upper / str.lower on the strings of the model
Upper(s) ==
    CASE s = "aapl" -> "AAPL"
      [] s = "call" -> "CALL"
      [] s = "put"  -> "PUT"
      [] OTHER -> s

Lower(s) ==
    CASE s = "AAPL" -> "aapl"
      [] s = "CALL" -> "call"
      [] s = "PUT"  -> "put"
      [] OTHER -> s

RECURSIVE SeqsUpTo(_, _)
SeqsUpTo(S, n) ==
    IF n = 0 THEN {<< >>}
    ELSE LET shorter == SeqsUpTo(S, n - 1)
         IN shorter \cup {Append(s, x) : s \in shorter, x \in S}

SetMin(S) == CHOOSE x \in S : \A y \in S : x <= y
SetMax(S) == CHOOSE x \in S : \A y \in S : x >= y

(***************************************************************************)
(* Inputs: configuration, user input and upstream responses                *)
(***************************************************************************)
\* (POLYGON_API_KEY, st.secrets) pairs: the variable unset or empty with
\* secrets that are empty, hold another key or hold an empty key; and a
\* configured variable beside a configured secret
Configs ==
    ({None, Some("")} \X {EmptyDict, [other |-> "x"], [polygon_api_key |-> ""]})
    \cup {<<Some("K"), [polygon_api_key |-> "S"]>>}

\* st.text_input default
TickerInput == "AAPL"

\* contract dictionaries of the listing
Contracts ==
    { [ticker |-> Some("O:A"), contract_type |-> Some("call"),
       strike_price |-> Some(1), expiration_date |-> Some("2024-08-16")],
      [ticker |-> Some("O:B"), contract_type |-> Some("PUT"),
       strike_price |-> Some(2), expiration_date |-> Some("2024-08-16")] }

Exception == [kind |-> "exception", detail |-> "Read timed out."]
Http(status, body) == [kind |-> "http", status |-> status, body |-> body]
Object(d) == [type |-> "object", d |-> d]

\* bodies of a non-200 response: not JSON, a JSON array, JSON objects with
\* and without a "message" (a string, the empty string, null)
ErrorBodies ==
    { [type |-> "text"], [type |-> "array"] }
    \cup { Object(d) : d \in { [status |-> Some("ERROR")],
                               [message |-> None],
                               [message |-> Some("")],
                               [message |-> Some("Unknown API Key")] } }

ErrorStatuses == {403, 500}

ContractsResponses ==
    {Exception}
    \cup { Http(s, b) : s \in ErrorStatuses, b \in ErrorBodies }
    \cup { Http(200, Object([status |-> Some("OK")])) }
    \cup { Http(200, Object([results |-> cs])) : cs \in SeqsUpTo(Contracts, MaxContracts) }

\* a lookup that ends without data: exception, non-200, no or empty results
FailedLookups ==
    { Exception, Http(500, [type |-> "text"]),
      Http(200, Object([status |-> Some("OK")])),
      Http(200, Object([results |-> << >>])) }

\* previous-session aggregates: {}, without "c", with a null "c", with a close
AggDicts ==
    { EmptyDict,
      [o |-> Some(0), h |-> Some(MaxPrice), l |-> Some(0)] }
    \cup { [c |-> c, o |-> Some(0), h |-> Some(MaxPrice), l |-> Some(0)] :
             c \in {None} \cup {Some(p) : p \in Prices} }

AggResponses ==
    FailedLookups \cup { Http(200, Object([results |-> <<a>>])) : a \in AggDicts }

\* the value under a price key: null or a number
PriceValues == {None} \cup {Some(p) : p \in Prices}

\* trades: each of "p" and "price" is missing, null or a number
TradeDicts ==
    { EmptyDict }
    \cup { [p |-> a] : a \in PriceValues }
    \cup { [price |-> b] : b \in PriceValues }
    \cup { [p |-> a, price |-> b] : a \in PriceValues, b \in PriceValues }

TradeResponses ==
    FailedLookups \cup { Http(200, Object([results |-> <<t>>])) : t \in TradeDicts }

(***************************************************************************)
(* The functions of streamlit_app.py                                       *)
(***************************************************************************)
\* get_api_key falling back to a placeholder key instead of ""
get_api_key_placeholder(e, s) ==
    IF TruthyStr(e) THEN e[1]
    ELSE IF DOMAIN s # {} /\ "polygon_api_key" \in DOMAIN s THEN s["polygon_api_key"]
    ELSE "demo"

get_api_key(e, s) ==
    IF TruthyStr(e) THEN e[1]
    ELSE IF DOMAIN s # {} /\ "polygon_api_key" \in DOMAIN s THEN s["polygon_api_key"]
    ELSE ""

\* the message of a non-200 contracts response: resp.json().get("message",
\* f"HTTP {status}"), and f"HTTP {status}" when json() or get raises
ErrorMessage(r) ==
    LET fallback == Some("HTTP " \o ToString(r.status))
    IN IF r.body.type = "object"
       THEN GetDefault(r.body.d, "message", fallback)
       ELSE fallback

\* fetch_contracts swallowing the request exception
fetch_contracts_swallow(r) ==
    IF r.kind = "exception"
    THEN [data |-> << >>, error |-> None]
    ELSE IF r.status # 200
    THEN [data |-> << >>,
          error |-> Some(<<"Failed to fetch contracts: ", FormatStr(ErrorMessage(r))>>)]
    ELSE [data |-> GetDefault(r.body.d, "results", << >>), error |-> None]

\* (contracts, error)
fetch_contracts(r) ==
    IF r.kind = "exception"
    THEN [data |-> << >>, error |-> Some(<<"Request error: ", r.detail>>)]
    ELSE IF r.status # 200
    THEN [data |-> << >>,
          error |-> Some(<<"Failed to fetch contracts: ", FormatStr(ErrorMessage(r))>>)]
    ELSE [data |-> GetDefault(r.body.d, "results", << >>), error |-> None]

fetch_prev_agg(r) ==
    IF r.kind = "exception" THEN None
    ELSE IF r.status # 200 THEN None
    ELSE LET results == GetDefault(r.body.d, "results", << >>)
         IN IF results # << >> THEN Some(results[1]) ELSE None

\* price = trade.get("p") or trade.get("price")
TradePrice(trade) == Or(Get(trade, "p"), Get(trade, "price"))

\* fetch_last_trade returning a zero price when the request fails
fetch_last_trade_zero(r) ==
    IF r.kind = "exception" THEN Some(0)
    ELSE IF r.status # 200 THEN Some(0)
    ELSE LET data == GetDefault(r.body.d, "results", << >>)
         IN IF data = << >> THEN None
            ELSE LET price == TradePrice(data[1])
                 IN IF price # None THEN Some(price[1]) ELSE None

fetch_last_trade(r) ==
    IF r.kind = "exception" THEN None
    ELSE IF r.status # 200 THEN None
    ELSE LET data == GetDefault(r.body.d, "results", << >>)
         IN IF data = << >> THEN None
            ELSE LET price == TradePrice(data[1])
                 IN IF price # None THEN Some(price[1]) ELSE None

\* truth value of prev: None and {} are falsy
TruthyPrev(p) == p # None /\ DOMAIN p[1] # {}

PrevField(p, k) == IF TruthyPrev(p) THEN Get(p[1], k) ELSE None

\* the premium taken from the close whenever there is one
PremiumValueCloseFirst(lp, close_price) == IF close_price # None THEN close_price ELSE lp

PremiumValue(lp, close_price) == IF lp # None THEN lp ELSE close_price

PremiumSource(lp, close_price) == IF lp # None THEN "real" ELSE "close"

\* the row build_dataframe appends for one contract
Row(contract, p, lp) ==
    LET close_price == PrevField(p, "c")
    IN [OptionTicker  |-> Get(contract, "ticker"),
        Type          |-> Get(contract, "contract_type"),
        Strike        |-> Get(contract, "strike_price"),
        Expiration    |-> Get(contract, "expiration_date"),
        Close         |-> close_price,
        Open          |-> PrevField(p, "o"),
        High          |-> PrevField(p, "h"),
        Low           |-> PrevField(p, "l"),
        Premium       |-> PremiumValue(lp, close_price),
        PremiumSource |-> PremiumSource(lp, close_price)]

(***************************************************************************)
(* Rendering: main, after build_dataframe                                  *)
(***************************************************************************)
\* df["Type"].str.lower(): a missing type stays missing
LowerType(t) == IF t = None THEN None ELSE Some(Lower(t[1]))

\* the frame with its index: row k of build_dataframe has index k
Frame(rs) == [k \in 1 .. Len(rs) |->
                [index |-> k, row |-> [rs[k] EXCEPT !.Type = LowerType(@)]]]

\* df[df["Type"].isin(option_types)]
TypeFilter(df, types) ==
    SelectSeq(df, LAMBDA e : e.row.Type # None /\ e.row.Type[1] \in types)

\* df_filtered["Premium"].dropna()
ValidPremiums(df) ==
    { df[k].row.Premium[1] : k \in { j \in 1 .. Len(df) : df[j].row.Premium # None } }

\* (min_value, max_value) of the slider, also its default value
SliderBounds(df) ==
    LET valid == ValidPremiums(df)
    IN IF valid # {} THEN <<SetMin(valid), SetMax(valid)>> ELSE <<0, 0>>

\* the multiselect's values
TypeSelections == { {"call", "put"}, {"call"} }

\* the slider's values: the whole range (its default) or one of its ends
SliderSelections(bounds) ==
    { bounds, <<bounds[1], bounds[1]>>, <<bounds[2], bounds[2]>> }

\* Premium.fillna(0)
FillNa(premium) == IF premium = None THEN 0 ELSE premium[1]

PremiumFilter(df, range) ==
    SelectSeq(df, LAMBDA e : /\ FillNa(e.row.Premium) >= range[1]
                             /\ FillNa(e.row.Premium) <= range[2])

format_premium(value, source) ==
    IF value = None THEN None
    ELSE IF source = "close" THEN Some(ToString(value[1]) \o " C")
    ELSE Some(ToString(value[1]))

\* df_filtered[display_cols], PremiumDisplay renamed to Premium
Display(df) ==
    [k \in 1 .. Len(df) |->
        [index         |-> df[k].index,
         OptionTicker  |-> df[k].row.OptionTicker,
         Type          |-> df[k].row.Type,
         Strike        |-> df[k].row.Strike,
         Expiration    |-> df[k].row.Expiration,
         Premium       |-> format_premium(df[k].row.Premium, df[k].row.PremiumSource),
         PremiumSource |-> df[k].row.PremiumSource,
         Open          |-> df[k].row.Open,
         High          |-> df[k].row.High,
         Low           |-> df[k].row.Low]]

\* the table main renders from the rows under the widgets' values
Rendered(rs, types, range) ==
    Display(PremiumFilter(TypeFilter(Frame(rs), types), range))

(***************************************************************************)
(* The script                                                              *)
(***************************************************************************)
Call(endpoint, arg) == [endpoint |-> endpoint, arg |-> arg]

Init ==
    /\ \E c \in Configs : env = c[1] /\ secrets = c[2]
    /\ api_key = get_api_key(env, secrets)
    /\ pc = "idle"
    /\ contracts = << >>
    /\ error = None
    /\ i = 0
    /\ resp = None
    /\ prev = None
    /\ last_price = None
    /\ rows = << >>
    /\ calls = << >>
    /\ messages = << >>
    /\ option_types = {}
    /\ price_range = None
    /\ table = None

\* st.button returns True: the key check
Click ==
    /\ pc = "idle"
    /\ IF api_key = ""
       THEN /\ messages' = Append(messages, [kind |-> "error", text |-> <<"API key is missing. Set POLYGON_API_KEY env var or configure Streamlit secrets.">>])
            /\ pc' = "done"
       ELSE /\ messages' = messages
            /\ pc' = "contracts"
    /\ UNCHANGED <<env, secrets, api_key, contracts, error, i, resp, prev,
                   last_price, rows, calls, option_types, price_range, table>>

\* fetch_contracts and main's branch on its result
FetchContracts ==
    /\ pc = "contracts"
    /\ \E r \in ContractsResponses :
         LET got == fetch_contracts(r)
         IN /\ calls' = Append(calls, Call("contracts", Upper(TickerInput)))
            /\ resp' = Some(r)
            /\ contracts' = got.data
            /\ error' = got.error
            /\ IF got.error # None /\ Text(got.error[1]) # ""
               THEN /\ messages' = Append(messages, [kind |-> "error", text |-> got.error[1]])
                    /\ pc' = "done"
                    /\ i' = i
               ELSE IF got.data = << >>
               THEN /\ messages' = Append(messages, [kind |-> "warning", text |-> <<"No contracts found for the specified underlying ticker.">>])
                    /\ pc' = "done"
                    /\ i' = i
               ELSE /\ messages' = messages
                    /\ pc' = "agg"
                    /\ i' = 1
    /\ UNCHANGED <<env, secrets, api_key, prev, last_price, rows,
                   option_types, price_range, table>>

\* the aggregate lookup skipping the trade lookup when it found nothing
FetchPrevAggSkipTrade ==
    /\ pc = "agg"
    /\ \E r \in AggResponses :
         /\ calls' = Append(calls, Call("prev", Get(contracts[i], "ticker")))
         /\ resp' = Some(r)
         /\ prev' = fetch_prev_agg(r)
         /\ pc' = IF fetch_prev_agg(r) = None THEN "row" ELSE "trade"
    /\ last_price' = None
    /\ UNCHANGED <<env, secrets, api_key, contracts, error, i, rows,
                   messages, option_types, price_range, table>>

\* build_dataframe: prev = fetch_prev_agg(ticker, api_key)
FetchPrevAgg ==
    /\ pc = "agg"
    /\ \E r \in AggResponses :
         /\ calls' = Append(calls, Call("prev", Get(contracts[i], "ticker")))
         /\ resp' = Some(r)
         /\ prev' = fetch_prev_agg(r)
    /\ pc' = "trade"
    /\ UNCHANGED <<env, secrets, api_key, contracts, error, i, last_price, rows,
                   messages, option_types, price_range, table>>

\* build_dataframe: last_price = fetch_last_trade(ticker, api_key)
FetchLastTrade ==
    /\ pc = "trade"
    /\ \E r \in TradeResponses :
         /\ calls' = Append(calls, Call("trades", Get(contracts[i], "ticker")))
         /\ resp' = Some(r)
         /\ last_price' = fetch_last_trade(r)
    /\ pc' = "row"
    /\ UNCHANGED <<env, secrets, api_key, contracts, error, i, prev, rows,
                   messages, option_types, price_range, table>>

\* the loop dropping the rows that have no premium
BuildRowDropEmpty ==
    /\ pc = "row"
    /\ rows' = IF Row(contracts[i], prev, last_price).Premium = None
               THEN rows
               ELSE Append(rows, Row(contracts[i], prev, last_price))
    /\ resp' = None
    /\ i' = i + 1
    /\ pc' = IF i < Len(contracts) THEN "agg" ELSE "render"
    /\ UNCHANGED <<env, secrets, api_key, contracts, error, prev, last_price,
                   calls, messages, option_types, price_range, table>>

\* build_dataframe: the row of the contract, and the loop's next iteration
BuildRow ==
    /\ pc = "row"
    /\ rows' = Append(rows, Row(contracts[i], prev, last_price))
    /\ resp' = None
    /\ i' = i + 1
    /\ pc' = IF i < Len(contracts) THEN "agg" ELSE "render"
    /\ UNCHANGED <<env, secrets, api_key, contracts, error, prev, last_price,
                   calls, messages, option_types, price_range, table>>

\* main: the filters and st.dataframe
Render ==
    /\ pc = "render"
    /\ \E types \in TypeSelections :
         \E range \in SliderSelections(SliderBounds(TypeFilter(Frame(rows), types))) :
            /\ option_types' = types
            /\ price_range' = range
            /\ table' = Some(Rendered(rows, types, range))
    /\ prev' = None
    /\ last_price' = None
    /\ pc' = "done"
    /\ UNCHANGED <<env, secrets, api_key, contracts, error, i, resp, rows,
                   calls, messages>>

Next ==
    \/ Click
    \/ FetchContracts
    \/ FetchPrevAgg
    \/ FetchLastTrade
    \/ BuildRow
    \/ Render

Spec == Init /\ [][Next]_vars

(***************************************************************************)
(* Properties                                                              *)
(***************************************************************************)
\* the close of the aggregate a lookup returned, None without one
CloseOf(p) == IF p # None /\ "c" \in DOMAIN p[1] THEN p[1].c ELSE None

\* a contracts response that is a failure: an exception or a non-200
ListingFailed(r) == r.kind = "exception" \/ r.status # 200

\* a trades or aggregate response with a non-empty results array
HasResults(r) ==
    /\ r.kind = "http"
    /\ r.status = 200
    /\ "results" \in DOMAIN r.body.d
    /\ r.body.d.results # << >>

\* C1: the row appended for a contract has PremiumSource "real" and the trade
\* price as Premium when the trade lookup returned a price, with or without
\* a previous close; it has PremiumSource "close" and the close as Premium
\* when the trade lookup returned None and the aggregate has a close.  Rows
\* change in no other step.
PremiumPrefersTrade ==
    [][ IF pc = "row"
        THEN /\ Len(rows') = Len(rows) + 1
             /\ SubSeq(rows', 1, Len(rows)) = rows
             /\ LET row == rows'[Len(rows')]
                IN /\ last_price # None =>
                        row.PremiumSource = "real" /\ row.Premium = last_price
                   /\ (last_price = None /\ CloseOf(prev) # None) =>
                        row.PremiumSource = "close" /\ row.Premium = CloseOf(prev)
        ELSE rows' = rows ]_vars

\* C1 witness: a finished table whose first row took the trade price over a
\* different close and whose second row fell back to its close
PremiumPrefersTradeWitness ==
    /\ pc = "done"
    /\ Len(rows) = 2
    /\ rows[1].PremiumSource = "real"
    /\ rows[1].Close # None
    /\ rows[1].Premium # rows[1].Close
    /\ rows[2].PremiumSource = "close"
    /\ rows[2].Close # None
    /\ rows[2].Premium = rows[2].Close

\* C2: the row just appended has PremiumSource "close" exactly when the trade
\* lookup returned None and the aggregate has a close; with neither, Premium
\* is None and PremiumSource is neither "real" nor "close".
CloseSourceIffCloseUsed ==
    (pc \in {"agg", "render"} /\ rows # << >>) =>
        LET row == rows[Len(rows)]
        IN /\ row.PremiumSource = "close" <=>
                (last_price = None /\ CloseOf(prev) # None)
           /\ (last_price = None /\ CloseOf(prev) = None) =>
                (row.Premium = None /\ row.PremiumSource \notin {"real", "close"})

\* a part of the error text equals s
Contains(parts, s) == \E k \in 1 .. Len(parts) : parts[k] = s

\* the body of a response carries an upstream message
CarriesMessage(r) ==
    /\ r.body.type = "object"
    /\ "message" \in DOMAIN r.body.d
    /\ r.body.d.message # None

\* C3: after a non-200 contracts response fetch_contracts has returned no
\* contracts and a non-empty error text, which contains the upstream
\* message when the body carries one and the HTTP status code otherwise.
NonOkListingReportsMessageOrStatus ==
    (Len(calls) = 1 /\ resp # None /\ resp[1].kind = "http" /\ resp[1].status # 200) =>
        /\ contracts = << >>
        /\ error # None
        /\ Text(error[1]) # ""
        /\ IF CarriesMessage(resp[1])
           THEN Contains(error[1], resp[1].body.d.message[1])
           ELSE Contains(error[1], "HTTP " \o ToString(resp[1].status))

\* C4: every row built so far carries the ticker of the contract at its
\* position, and once the loop has ended there is one row per contract.
RowsFollowContracts ==
    /\ Len(rows) <= Len(contracts)
    /\ \A k \in 1 .. Len(rows) : rows[k].OptionTicker = contracts[k].ticker
    /\ (pc = "render" \/ table # None) => Len(rows) = Len(contracts)
    /\ pc \in {"agg", "trade", "row"} => Len(rows) = i - 1

\* C4 witness: a listing of O:B then O:A was rendered as two rows in that
\* order, the first without any price data
RowsFollowContractsWitness ==
    /\ pc = "done"
    /\ table # None
    /\ Len(contracts) = 2
    /\ contracts[1].ticker = Some("O:B")
    /\ contracts[2].ticker = Some("O:A")
    /\ Len(rows) = 2
    /\ rows[1].OptionTicker = Some("O:B")
    /\ rows[2].OptionTicker = Some("O:A")
    /\ rows[1].Premium = None
    /\ rows[2].Premium # None

\* the key is set neither in the environment nor in the secrets
KeyUnset ==
    /\ env \in {None, Some("")}
    /\ "polygon_api_key" \in DOMAIN secrets => secrets["polygon_api_key"] = ""

ConfigMissing ==
    [kind |-> "error",
     text |-> <<"API key is missing. Set POLYGON_API_KEY env var or configure Streamlit secrets.">>]

\* C5: with the key unset no request is ever issued, the script is either
\* before the click or finished, nothing is fetched or rendered, and once
\* finished the only output is the configuration-missing error.
NoKeyNoNetwork ==
    KeyUnset =>
        /\ api_key = ""
        /\ calls = << >>
        /\ resp = None
        /\ pc \in {"idle", "done"}
        /\ contracts = << >> /\ rows = << >> /\ table = None
        /\ messages = IF pc = "done" THEN <<ConfigMissing>> ELSE << >>

\* C5 witness: the click with nothing configured ended in the error
NoKeyNoNetworkWitness ==
    /\ env = None
    /\ secrets = EmptyDict
    /\ pc = "done"
    /\ messages = <<ConfigMissing>>
    /\ calls = << >>

\* C6: a step that receives a failed contracts response ends the script with
\* that one call issued, exactly one error message carrying the returned
\* error, no rows and no table; and nothing is done after the script ended.
ListingFailureAborts ==
    [][ /\ pc # "done"
        /\ (pc = "contracts" /\ ListingFailed(resp'[1])) =>
              /\ pc' = "done"
              /\ Len(calls') = 1
              /\ calls'[1].endpoint = "contracts"
              /\ Len(messages') = 1
              /\ messages'[1].kind = "error"
              /\ error' # None
              /\ messages'[1].text = error'[1]
              /\ rows' = << >>
              /\ table' = None ]_vars

\* C6 witness: the contracts call timed out and the script ended with the
\* error alone
ListingFailureAbortsWitness ==
    /\ pc = "done"
    /\ resp = Some(Exception)
    /\ Len(calls) = 1
    /\ Len(messages) = 1
    /\ messages[1].kind = "error"
    /\ messages[1].text = <<"Request error: ", "Read timed out.">>
    /\ table = None

\* C7: every lookup step, whatever its response, hands control to the next
\* step of the loop; a failed lookup (exception, non-200, no or empty
\* results) leaves None in its own field and touches neither the other
\* field, the rows nor the messages; every contract gets its row, the loop
\* ends only with one row per contract, and the table is then rendered
\* without any message.
LookupFailureIsAbsentData ==
    [][ /\ pc = "agg" =>
              /\ pc' = "trade"
              /\ resp'[1] \in FailedLookups => prev' = None
              /\ UNCHANGED <<last_price, rows, messages, i>>
        /\ pc = "trade" =>
              /\ pc' = "row"
              /\ resp'[1] \in FailedLookups => last_price' = None
              /\ UNCHANGED <<prev, rows, messages, i>>
        /\ pc = "row" =>
              /\ Len(rows') = i
              /\ messages' = << >>
              /\ pc' = IF Len(rows') = Len(contracts) THEN "render" ELSE "agg"
        /\ pc = "render" =>
              /\ pc' = "done"
              /\ table' # None
              /\ messages' = << >> ]_vars

\* C7 witness: the first contract got a row without price data, and the
\* aggregate lookup of the second has just raised and is followed by its
\* trade lookup
LookupFailureIsAbsentDataWitness ==
    /\ pc = "trade"
    /\ i = 2
    /\ resp = Some(Exception)
    /\ prev = None
    /\ Len(rows) = 1
    /\ rows[1].Close = None
    /\ rows[1].Premium = None
    /\ messages = << >>

\* the first of "p" and "price" that is present and not null
FirstPresentPrice(trade) ==
    IF "p" \in DOMAIN trade /\ trade.p # None THEN trade.p
    ELSE IF "price" \in DOMAIN trade /\ trade.price # None THEN trade.price
    ELSE None

\* C8: after a trades response with a non-empty results array, last_price is
\* the value of the first of "p" and "price" that is present and not null,
\* and None only when both are missing or null.
TradePriceIsFirstPresentKey ==
    (pc = "row" /\ HasResults(resp[1])) =>
        last_price = FirstPresentPrice(resp[1].body.d.results[1])

\* the requests of a whole fetch over the contracts cs, in order
RECURSIVE Lookups(_)
Lookups(cs) ==
    IF cs = << >> THEN << >>
    ELSE << [endpoint |-> "prev", arg |-> Head(cs).ticker],
            [endpoint |-> "trades", arg |-> Head(cs).ticker] >> \o Lookups(Tail(cs))

\* the number of requests issued when the script is at its position
Issued ==
    CASE pc = "idle" -> 0
      [] pc = "contracts" -> 0
      [] pc = "agg" -> 1 + 2 * (i - 1)
      [] pc = "trade" -> 2 + 2 * (i - 1)
      [] pc = "row" -> 3 + 2 * (i - 1)
      [] pc = "render" -> 1 + 2 * Len(contracts)
      [] pc = "done" -> IF table # None THEN 1 + 2 * Len(contracts) ELSE Len(calls)

\* C9: with a key and a successful listing, the requests issued so far are
\* a prefix of: the contracts call, then for each contract in list order its
\* aggregate lookup and its trade lookup; the prefix is as long as the
\* script's position says, and the whole sequence once the table is rendered.
CallsAreSequential ==
    (api_key # "" /\ (calls # << >> => error = None)) =>
        /\ Len(calls) = Issued
        /\ calls = SubSeq(<<[endpoint |-> "contracts", arg |-> "AAPL"]>> \o Lookups(contracts),
                          1, Issued)
        /\ (pc = "done" /\ calls # << >>) => Len(calls) = 1 + 2 * Len(contracts)

\* C9 witness: two contracts rendered after five requests, the aggregate
\* lookup of the first having returned nothing
CallsAreSequentialWitness ==
    /\ pc = "done"
    /\ table # None
    /\ Len(contracts) = 2
    /\ contracts[1].ticker # contracts[2].ticker
    /\ Len(calls) = 5
    /\ rows[1].Close = None
    /\ rows[1].Open = None
    /\ rows[1].PremiumSource = "real"

\* C10: under the default filters (both types selected, the slider at its
\* bounds) every row whose Type is call or put is in the rendered table.
DefaultFiltersHideNoRow ==
    (pc = "done" /\ table # None /\ option_types = {"call", "put"}
        /\ price_range = SliderBounds(TypeFilter(Frame(rows), {"call", "put"}))) =>
        \A k \in 1 .. Len(rows) :
            (rows[k].Type # None /\ Lower(rows[k].Type[1]) \in {"call", "put"}) =>
                \E j \in 1 .. Len(table[1]) : table[1][j].index = k

====
